---- MODULE Spec2Model ----
(***************************************************************************)
(* StampCollect: the SQLite data-access layer (src/src/database.py) and    *)
(* the in-memory entity model (src/src/stamp.py).                          *)
(*                                                                         *)
(* The store is modelled at the level of SQLite's observable behaviour:    *)
(* the schema of the stamps table, the rows of stamps, tags, stamp_tags    *)
(* and collection_items, the connection's last_insert_rowid, and the wall  *)
(* clock that datetime('now') reads.  Every API call is one action; `ret`  *)
(* holds the call just made, its arguments and what it returned or raised. *)
(***************************************************************************)
EXTENDS Integers, Sequences, FiniteSets, TLC

\* Largest rowid a table hands out (SQLite's own limit is 2^63-1).
MaxId == 2
\* Last instant of the wall clock; datetime('now') reads 0..MaxClock.
MaxClock == 1

VARIABLES
    tables,            \* names of the tables in sqlite_master
    indexes,           \* names of the explicit indexes in sqlite_master
    stampCols,         \* PRAGMA table_info(stamps): column name -> declared type
    stampDefaults,     \* columns of stamps declared DEFAULT (datetime('now'))
    stamps,            \* stamps rows: id -> [column -> value]
    tags,              \* tags rows: id -> name
    stamp_tags,        \* stamp_tags rows: [rowid, stamp_id, tag_id]
    collection_items,  \* collection_items rows: [id, collection_id, stamp_id]
    lastrowid,         \* sqlite3_last_insert_rowid() of the open connection
    now,               \* the wall clock
    ret,               \* the last call: [op, arg, val, err]
    born,              \* history: id -> the created_at add_stamp's INSERT gave the row
    objects,           \* Stamp objects constructed so far: object id -> attributes
    lists,             \* list objects on the heap: reference -> sequence of object ids
    coll,              \* the StampCollection object: [stamps |-> reference to a list]
    held,              \* the list list_stamps last returned: {[ref, seen]}, seen its items then
    mret               \* the last call on the entity model: [op, arg, val, err]

storeVars == <<tables, indexes, stampCols, stampDefaults, stamps, tags,
               stamp_tags, collection_items, lastrowid, now, ret, born>>
memVars == <<objects, lists, coll, held, mret>>
vars == <<tables, indexes, stampCols, stampDefaults, stamps, tags, stamp_tags,
          collection_items, lastrowid, now, ret, born, objects, lists, coll, held,
          mret>>

(***************************************************************************)
(* SQL values.  A value carries its storage class, so that NULL, an        *)
(* integer and a text are never confused.                                  *)
(***************************************************************************)
NULL == <<"null">>
Text(s) == <<"text", s>>
Integer(n) == <<"int", n>>
\* The text datetime('now') yields when the clock reads t.
DateTime(t) == <<"datetime", t>>

None == [none |-> TRUE]
EmptyFn == [i \in {} |-> NULL]
Range(f) == {f[i] : i \in DOMAIN f}
SetMax(S) == CHOOSE m \in S : \A n \in S : n <= m
\* The rowid SQLite gives a new row of a rowid table: one more than the largest.
NextRowid(ids) == IF ids = {} THEN 1 ELSE SetMax(ids) + 1

(***************************************************************************)
(* Schema (create_tables, migrate_add_missing_columns, init_db)            *)
(***************************************************************************)
\* database.py:28
needed == <<"country", "year", "face_value", "condition", "catalog_number",
            "notes", "image_path", "created_at", "updated_at">>
neededSet == Range(needed)

\* database.py:31
ColType(col) ==
    IF col \in {"country", "face_value", "condition", "catalog_number", "notes",
                "image_path", "created_at", "updated_at"}
    THEN "TEXT" ELSE "INTEGER"

\* database.py:43-55
CreateStampsCols ==
    [id |-> "INTEGER", name |-> "TEXT", country |-> "TEXT", year |-> "INTEGER",
     face_value |-> "TEXT", condition |-> "TEXT", catalog_number |-> "TEXT",
     notes |-> "TEXT", image_path |-> "TEXT", created_at |-> "TEXT",
     updated_at |-> "TEXT"]
CreateStampsDefaults == {"created_at", "updated_at"}
\* gui.py:25-32
GuiStampsCols ==
    [id |-> "INTEGER", description |-> "TEXT", scott_number |-> "TEXT",
     used |-> "INTEGER"]

AllTables == {"stamps", "collections", "collection_items", "tags", "stamp_tags"}
AllIndexes == {"idx_stamps_country", "idx_stamps_catalog",
               "idx_collection_items_collection"}

\* The migration without its two UPDATE statements.
BackfillNone(rows, t) == rows
\* database.py:35-36: UPDATE stamps SET c = datetime('now') WHERE c IS NULL
Backfill(rows, t) ==
    [i \in DOMAIN rows |->
        [c \in DOMAIN rows[i] |->
            IF c \in {"created_at", "updated_at"} /\ rows[i][c] = NULL
            THEN DateTime(t) ELSE rows[i][c]]]

\* database.py:29-32: the columns ALTER TABLE ... ADD COLUMN is run for
MissingCols(cols) == {needed[k] : k \in {j \in DOMAIN needed : needed[j] \notin DOMAIN cols}}

\* database.py:32: a column added by ALTER TABLE is NULL in every existing row
AddColumns(rows, added) ==
    [i \in DOMAIN rows |->
        [c \in DOMAIN rows[i] \cup added |->
            IF c \in DOMAIN rows[i] THEN rows[i][c] ELSE NULL]]

\* migrate_add_missing_columns: the schema and the rows it leaves
migrate_add_missing_columns(cols, rows, t) ==
    LET added == MissingCols(cols)
    IN  [cols  |-> [c \in DOMAIN cols \cup added |->
                        IF c \in DOMAIN cols THEN cols[c] ELSE ColType(c)],
         rows  |-> Backfill(AddColumns(rows, added), t),
         added |-> added]

(***************************************************************************)
(* Pre-existing stores.  The file init_db opens either does not exist yet  *)
(* or holds a stamps table written by an older version of the application: *)
(* the table the GUI creates, or id and name with any subset of the nine   *)
(* later columns.  An older table holds no row or one row.                 *)
(***************************************************************************)
LegacyValue(c) ==
    IF c = "year" THEN Integer(1840)
    ELSE IF c = "used" THEN Integer(1)
    ELSE IF c \in {"created_at", "updated_at"} THEN DateTime(0)
    ELSE Text("old")

OldCols(S) == [c \in {"id", "name"} \cup S |-> CreateStampsCols[c]]
\* Every older table: the GUI's, and id, name with any subset of the nine.
LegacyCols == {GuiStampsCols} \cup {OldCols(S) : S \in SUBSET neededSet}
\* The older tables the CRUD runs start from: the GUI's, id and name alone, one
\* that already has created_at, and one missing only notes and image_path.
FewLegacyCols ==
    {GuiStampsCols, OldCols({}), OldCols({"created_at"}),
     OldCols(neededSet \ {"notes", "image_path"})}

\* One row of an older table: every column filled, a timestamp possibly NULL.
LegacyRows(cols) ==
    {[c \in DOMAIN cols \ {"id"} |->
        IF c \in nulls THEN NULL ELSE LegacyValue(c)] :
        nulls \in SUBSET (DOMAIN cols \cap {"created_at", "updated_at"})}

\* StampCollection.__init__, stamp.py:18-19: self.stamps = []
InitMem ==
    /\ objects = EmptyFn
    /\ lists = <<<<>>>>
    /\ coll = [stamps |-> 1]
    /\ held = {}
    /\ mret = [op |-> "none", arg |-> None, val |-> None, err |-> "none"]

InitConn ==
    /\ tags = EmptyFn
    /\ stamp_tags = {}
    /\ collection_items = {}
    /\ indexes = {}
    /\ lastrowid = 0
    /\ now = 0
    /\ ret = [op |-> "none", arg |-> None, val |-> None, err |-> "none"]
    /\ born = EmptyFn

InitFresh ==
    /\ tables = {}
    /\ stampCols = EmptyFn
    /\ stampDefaults = {}
    /\ stamps = EmptyFn

InitLegacy(family) ==
    \E cols \in family :
        /\ tables = {"stamps"}
        /\ stampCols = cols
        /\ stampDefaults \in SUBSET (DOMAIN cols \cap CreateStampsDefaults)
        /\ \/ stamps = EmptyFn
           \/ \E r \in LegacyRows(cols) : stamps = (1 :> r)

\* Tagging starts from no file or from an older table of id and name.
Init == (InitFresh \/ InitLegacy({OldCols({})})) /\ InitConn /\ InitMem
InitRows == (InitFresh \/ InitLegacy(FewLegacyCols)) /\ InitConn /\ InitMem
InitMig == InitLegacy(LegacyCols) /\ InitConn /\ InitMem

\* The clock may have moved on by the time of a call.
Times == {t \in {now, now + 1} : t <= MaxClock}

\* init_db, database.py:88-102
InitDb ==
    \E t \in Times :
        LET stamps_exists == "stamps" \in tables
            m == IF stamps_exists
                 THEN migrate_add_missing_columns(stampCols, stamps, t)
                 ELSE [cols |-> CreateStampsCols, rows |-> stamps, added |-> {}]
        IN  /\ now' = t
            /\ stampCols' = m.cols
            /\ stamps' = m.rows
            /\ stampDefaults' = IF stamps_exists THEN stampDefaults
                                ELSE CreateStampsDefaults
            /\ tables' = tables \cup AllTables
            /\ indexes' = indexes \cup AllIndexes
            /\ lastrowid' = 0
            /\ ret' = [op |-> "init_db",
                       arg |-> [stamps_exists |-> stamps_exists, added |-> m.added],
                       val |-> None, err |-> "none"]
            /\ UNCHANGED <<tags, stamp_tags, collection_items, born>>
            /\ UNCHANGED memVars

(***************************************************************************)
(* Record store (add_stamp .. tag_stamp).  A call on a connection needs    *)
(* init_db to have returned one.                                           *)
(***************************************************************************)
Connected == ret.op # "none"
Ok(op, arg, val) == [op |-> op, arg |-> arg, val |-> val, err |-> "none"]
Raised(op, arg, e) == [op |-> op, arg |-> arg, val |-> None, err |-> e]

\* database.py:111
InsertCols == {"name", "country", "year", "face_value", "condition",
               "catalog_number", "notes", "image_path"}
Optional == InsertCols \ {"name"}

InputValue(c) == IF c = "year" THEN Integer(1847) ELSE Text(c)
\* add_stamp's keyword arguments: the name and the optional fields of S, the
\* others left at their default None.
Fields(S) == [c \in InsertCols |-> IF c \in S \cup {"name"} THEN InputValue(c) ELSE NULL]
\* The field sets the CRUD runs add: the name alone, the smoke test's
\* (database.py:178), and all eight.
AddInputs == {Fields({}), Fields({"country", "year", "catalog_number"}), Fields(Optional)}

\* The mappings update_stamp is called with.
UpdateInputs ==
    {EmptyFn, "name" :> Text("renamed"), "created_at" :> NULL,
     ("notes" :> Text("n")) @@ ("updated_at" :> NULL), "bogus" :> Text("z")}

TagNames == {"x", "y"}
Ids == 1..MaxId

\* The row an INSERT naming InsertCols stores: the other columns take their
\* DEFAULT, or NULL without one.
InsertedRow(cols, defaults, f, t) ==
    [c \in DOMAIN cols \ {"id"} |->
        IF c \in InsertCols THEN f[c]
        ELSE IF c \in defaults THEN DateTime(t) ELSE NULL]

\* add_stamp, database.py:105-117
AddStamp(f) ==
    \E t \in Times :
        /\ Connected
        /\ now' = t
        /\ IF ~(InsertCols \subseteq DOMAIN stampCols)
           THEN /\ ret' = Raised("add_stamp", f, "OperationalError")
                /\ UNCHANGED <<stamps, lastrowid, born>>
           ELSE LET id == NextRowid(DOMAIN stamps)
                    row == InsertedRow(stampCols, stampDefaults, f, t)
                IN  /\ id <= MaxId
                    /\ stamps' = stamps @@ (id :> row)
                    /\ born' = born @@ (id :> row["created_at"])
                    /\ lastrowid' = id
                    /\ ret' = Ok("add_stamp", f, id)
        /\ UNCHANGED <<tables, indexes, stampCols, stampDefaults, tags, stamp_tags,
                       collection_items>>
        /\ UNCHANGED memVars

\* get_stamp, database.py:120-122: SELECT * ... fetchone()
get_stamp(rows, id) ==
    IF id \in DOMAIN rows THEN rows[id] @@ ("id" :> Integer(id)) ELSE None

GetStamp(id) ==
    /\ Connected
    /\ ret' = Ok("get_stamp", id, get_stamp(stamps, id))
    /\ UNCHANGED <<tables, indexes, stampCols, stampDefaults, stamps, tags,
                   stamp_tags, collection_items, lastrowid, now, born>>
    /\ UNCHANGED memVars

\* database.py:146: SET k = ?, ..., updated_at = datetime('now'); of two
\* assignments to one column SQLite keeps the rightmost.
UpdatedRow(row, fields, t) ==
    [c \in DOMAIN row |->
        IF c = "updated_at" THEN DateTime(t)
        ELSE IF c \in DOMAIN fields THEN fields[c] ELSE row[c]]

\* update_stamp, database.py:141-147
UpdateStamp(id, fields) ==
    \E t \in Times :
        /\ Connected
        /\ now' = t
        /\ IF DOMAIN fields = {}
           THEN /\ ret' = Ok("update_stamp", <<id, fields>>, None)
                /\ UNCHANGED stamps
           ELSE IF ~(DOMAIN fields \cup {"updated_at"} \subseteq DOMAIN stampCols)
           THEN /\ ret' = Raised("update_stamp", <<id, fields>>, "OperationalError")
                /\ UNCHANGED stamps
           ELSE /\ ret' = Ok("update_stamp", <<id, fields>>, None)
                /\ stamps' = [i \in DOMAIN stamps |->
                                IF i = id THEN UpdatedRow(stamps[i], fields, t)
                                ELSE stamps[i]]
        /\ UNCHANGED <<tables, indexes, stampCols, stampDefaults, tags, stamp_tags,
                       collection_items, lastrowid, born>>
        /\ UNCHANGED memVars

\* A delete with foreign-key enforcement off: dependent rows stay.
NoCascade(rows, id) == rows
\* ON DELETE CASCADE of a stamp_id REFERENCES stamps(id) column, enforced
\* because get_connection turns foreign_keys ON.
Cascade(rows, id) == {r \in rows : r.stamp_id # id}

\* delete_stamp, database.py:150-152.  The arg records, beside the id, how many
\* dependent rows the cascade removed.
DeleteStamp(id) ==
    /\ Connected
    /\ stamps' = [i \in DOMAIN stamps \ {id} |-> stamps[i]]
    /\ born' = [i \in DOMAIN born \ {id} |-> born[i]]
    /\ stamp_tags' = Cascade(stamp_tags, id)
    /\ collection_items' = Cascade(collection_items, id)
    /\ ret' = Ok("delete_stamp",
                 [id |-> id, existed |-> id \in DOMAIN stamps,
                  cascaded |-> Cardinality(stamp_tags \ Cascade(stamp_tags, id))],
                 None)
    /\ UNCHANGED <<tables, indexes, stampCols, stampDefaults, tags, lastrowid, now>>
    /\ UNCHANGED memVars

TagIdOf(rows, name) == CHOOSE i \in DOMAIN rows : rows[i] = name

\* add_tag, database.py:155-162: the tags rows, the connection's
\* last_insert_rowid and the value returned.  INSERT OR IGNORE stores a row
\* only when the name is new; cur.lastrowid is the connection's
\* last_insert_rowid, which an ignored INSERT leaves as it was.
add_tag(rows, last, name) ==
    LET inserted == name \notin Range(rows)
        id == NextRowid(DOMAIN rows)
        rows2 == IF inserted THEN rows @@ (id :> name) ELSE rows
        last2 == IF inserted THEN id ELSE last
    IN  [tags |-> rows2, lastrowid |-> last2,
         val |-> IF last2 # 0 THEN last2 ELSE TagIdOf(rows2, name)]

AddTag(name) ==
    LET r == add_tag(tags, lastrowid, name)
    IN  /\ Connected
        /\ DOMAIN r.tags \subseteq Ids
        /\ tags' = r.tags
        /\ lastrowid' = r.lastrowid
        /\ ret' = Ok("add_tag", name, r.val)
        /\ UNCHANGED <<tables, indexes, stampCols, stampDefaults, stamps, stamp_tags,
                       collection_items, now, born>>
        /\ UNCHANGED memVars

\* tag_stamp, database.py:165-168.  INSERT OR IGNORE skips a row whose
\* (stamp_id, tag_id) is there already; a stamp_id or tag_id that references
\* no row raises IntegrityError, after add_tag has committed.
TagStamp(id, name) ==
    LET r == add_tag(tags, lastrowid, name)
        tag_id == r.val
        dup == \E l \in stamp_tags : l.stamp_id = id /\ l.tag_id = tag_id
        fk == id \in DOMAIN stamps /\ tag_id \in DOMAIN r.tags
        rowid == NextRowid({l.rowid : l \in stamp_tags})
    IN  /\ Connected
        /\ DOMAIN r.tags \subseteq Ids
        /\ tags' = r.tags
        /\ IF dup
           THEN /\ ret' = Ok("tag_stamp", <<id, name>>, None)
                /\ lastrowid' = r.lastrowid
                /\ UNCHANGED stamp_tags
           ELSE IF ~fk
           THEN /\ ret' = Raised("tag_stamp", <<id, name>>, "IntegrityError")
                /\ lastrowid' = r.lastrowid
                /\ UNCHANGED stamp_tags
           ELSE /\ rowid <= MaxId
                /\ ret' = Ok("tag_stamp", <<id, name>>, None)
                /\ stamp_tags' = stamp_tags \cup
                        {[rowid |-> rowid, stamp_id |-> id, tag_id |-> tag_id]}
                /\ lastrowid' = rowid
        /\ UNCHANGED <<tables, indexes, stampCols, stampDefaults, stamps,
                       collection_items, now, born>>
        /\ UNCHANGED memVars

(***************************************************************************)
(* Entity model (stamp.py).  Python values carry their type.               *)
(***************************************************************************)
\* Stamp objects a run constructs, and the length the collection's list grows to.
MaxObjects == 2
MaxLen == 3

Str(s) == <<"str", s>>
Num(n) == <<"int", n>>
Bool(b) == <<"bool", b>>
PyNone == <<"None">>

\* stamp.py:2: def __init__(self, description, scott_number, used=False)
StampParams == <<"description", "scott_number", "used">>
StampRequired == {"description", "scott_number"}

\* The constructor calls made: the GUI's (gui.py:52, gui.py:66) and the unit
\* tests' (import unittest.py:8, 14, 20, 26).
StampCalls ==
    {[pos |-> <<Str("Blue Penny"), Str("S1"), Bool(TRUE)>>, kw |-> EmptyFn],
     [pos |-> <<Str("Penny Black"), Str("S2")>>, kw |-> EmptyFn],
     [pos |-> <<>>, kw |-> [name |-> Str("Blue Penny"), country |-> Str("Mauritius"),
                            year |-> Num(1847)]],
     [pos |-> <<>>, kw |-> [name |-> Str("Test"), country |-> Str("Testland"),
                            year |-> Str("not_a_year")]]}

\* Python's binding of a call's arguments to StampParams: TypeError for too
\* many positionals, an unexpected or repeated keyword, or a missing required
\* parameter.
BindError(call) ==
    LET byPos == {StampParams[k] : k \in 1..Len(call.pos)}
    IN  \/ Len(call.pos) > Len(StampParams)
        \/ ~(DOMAIN call.kw \subseteq Range(StampParams))
        \/ DOMAIN call.kw \cap byPos # {}
        \/ ~(StampRequired \subseteq byPos \cup DOMAIN call.kw)

Arg(call, k) ==
    IF k <= Len(call.pos) THEN call.pos[k] ELSE call.kw[StampParams[k]]

\* Stamp.__init__, stamp.py:2-10: the attributes it sets
StampInit(call) ==
    IF BindError(call)
    THEN [err |-> "TypeError", obj |-> None]
    ELSE [err |-> "none",
          obj |-> [description |-> Arg(call, 1), scott_number |-> Arg(call, 2),
                   qtyUsed |-> PyNone, qtyMint |-> PyNone, plateBlock |-> Bool(FALSE),
                   year |-> PyNone, usedPrice |-> PyNone, mintPrice |-> PyNone]]

NewStamp(call) ==
    LET r == StampInit(call)
        o == Cardinality(DOMAIN objects) + 1
    IN  /\ IF r.err # "none"
           THEN /\ mret' = [op |-> "Stamp", arg |-> call, val |-> None, err |-> r.err]
                /\ UNCHANGED objects
           ELSE /\ o <= MaxObjects
                /\ objects' = objects @@ (o :> r.obj)
                /\ mret' = [op |-> "Stamp", arg |-> call, val |-> o, err |-> "none"]
        /\ UNCHANGED <<lists, coll, held>>
        /\ UNCHANGED storeVars

\* StampCollection.add_stamp, stamp.py:21-23
CollAddStamp(o) ==
    /\ Len(lists[coll.stamps]) < MaxLen
    /\ lists' = [lists EXCEPT ![coll.stamps] = Append(@, o)]
    /\ mret' = [op |-> "add_stamp", arg |-> o, val |-> None, err |-> "none"]
    /\ UNCHANGED <<objects, coll, held>>
    /\ UNCHANGED storeVars

\* list.remove: drops the first item equal to o (Stamp defines no __eq__: the
\* same object)
RemoveFirst(seq, o) ==
    LET k == CHOOSE j \in 1..Len(seq) : seq[j] = o /\ \A h \in 1..(j - 1) : seq[h] # o
    IN  [j \in 1..(Len(seq) - 1) |-> IF j < k THEN seq[j] ELSE seq[j + 1]]

\* StampCollection.remove_stamp, stamp.py:25-28
CollRemoveStamp(o) ==
    /\ lists' = IF o \in Range(lists[coll.stamps])
                THEN [lists EXCEPT ![coll.stamps] = RemoveFirst(@, o)]
                ELSE lists
    /\ mret' = [op |-> "remove_stamp", arg |-> o, val |-> None, err |-> "none"]
    /\ UNCHANGED <<objects, coll, held>>
    /\ UNCHANGED storeVars

\* StampCollection.list_stamps, stamp.py:30-32: return self.stamps, the
\* reference to the collection's own list.
list_stamps == coll.stamps

CollListStamps ==
    /\ held' = {[ref |-> list_stamps, seen |-> lists[list_stamps]]}
    /\ mret' = [op |-> "list_stamps", arg |-> None, val |-> list_stamps, err |-> "none"]
    /\ UNCHANGED <<objects, lists, coll>>
    /\ UNCHANGED storeVars

\* StampCollection.__len__, stamp.py:34-36
CollLen ==
    /\ mret' = [op |-> "len", arg |-> None, val |-> Len(lists[coll.stamps]), err |-> "none"]
    /\ UNCHANGED <<objects, lists, coll, held>>
    /\ UNCHANGED storeVars

NextMem ==
    \/ \E call \in StampCalls : NewStamp(call)
    \/ \E o \in DOMAIN objects : CollAddStamp(o)
    \/ \E o \in DOMAIN objects : CollRemoveStamp(o)
    \/ CollListStamps
    \/ CollLen

InitEntities == InitFresh /\ InitConn /\ InitMem
SpecMem == InitEntities /\ [][NextMem]_vars

\* Tagging and deleting: stamps are added by name alone.
Next ==
    \/ InitDb
    \/ AddStamp(Fields({}))
    \/ \E id \in Ids : DeleteStamp(id)
    \/ \E name \in TagNames : AddTag(name)
    \/ \E id \in Ids, name \in TagNames : TagStamp(id, name)

Spec == Init /\ [][Next]_vars

\* The rows of stamps: add, get, update, delete and schema setup.
NextRows ==
    \/ InitDb
    \/ \E f \in AddInputs : AddStamp(f)
    \/ \E id \in Ids : GetStamp(id)
    \/ \E id \in Ids, fields \in UpdateInputs : UpdateStamp(id, fields)
    \/ \E id \in Ids : DeleteStamp(id)

SpecRows == InitRows /\ [][NextRows]_vars

\* Schema setup over every older table, and an add after it.
NextMig ==
    \/ InitDb
    \/ AddStamp(Fields({}))

SpecMig == InitMig /\ [][NextMig]_vars

(***************************************************************************)
(* Properties                                                              *)
(***************************************************************************)

\* C1: add_tag(name) returns the id of the tags row named name, and exactly
\* one tags row has that name afterwards.  tags rows are never changed or
\* deleted, so two calls that each return the id of the row named name return
\* the same id.
C1_AddTagReturnsIdOfName ==
    ret.op = "add_tag" =>
        /\ ret.err = "none"
        /\ ret.val \in DOMAIN tags
        /\ tags[ret.val] = ret.arg
        /\ Cardinality({i \in DOMAIN tags : tags[i] = ret.arg}) = 1

\* C2: tag_stamp(s, x) on an existing stamp s raises nothing and leaves
\* exactly one stamp_tags row linking s to the tag named x; when that link was
\* there before the call, the call changes no table.
Linked(tagRows, links, s, x) ==
    /\ x \in Range(tagRows)
    /\ \E l \in links : l.stamp_id = s /\ l.tag_id = TagIdOf(tagRows, x)

C2_TagStampIdempotent ==
    [][(ret'.op = "tag_stamp" /\ ret'.arg[1] \in DOMAIN stamps) =>
        LET s == ret'.arg[1]
            x == ret'.arg[2]
        IN  /\ ret'.err = "none"
            /\ x \in Range(tags')
            /\ Cardinality({l \in stamp_tags' :
                    l.stamp_id = s /\ l.tag_id = TagIdOf(tags', x)}) = 1
            /\ Linked(tags, stamp_tags, s, x) =>
                    UNCHANGED <<stamps, tags, stamp_tags, collection_items>>]_vars

\* C3: after delete_stamp(id), get_stamp(id) is the not-found result and no
\* collection_items or stamp_tags row references id; and in every state no
\* association row references a stamp that does not exist.
C3_DeleteLeavesNoReference ==
    /\ ret.op = "delete_stamp" =>
          /\ ret.err = "none"
          /\ get_stamp(stamps, ret.arg.id) = None
          /\ \A l \in stamp_tags : l.stamp_id # ret.arg.id
          /\ \A l \in collection_items : l.stamp_id # ret.arg.id
    /\ \A l \in stamp_tags : l.stamp_id \in DOMAIN stamps
    /\ \A l \in collection_items : l.stamp_id \in DOMAIN stamps

\* C3's case: a stamp that carried a tag has just been deleted, and another
\* tagged stamp is still there.
C3_Witness ==
    /\ ret.op = "delete_stamp"
    /\ ret.arg.existed
    /\ ret.arg.cascaded > 0
    /\ stamp_tags # {}

\* C4: a row's created_at stays the value add_stamp's INSERT gave it, as long
\* as the row is not deleted.
C4_CreatedAtNeverChanges ==
    \A id \in DOMAIN born : stamps[id]["created_at"] = born[id]

\* C5: add_stamp returns an identity no existing row held, and get_stamp on it
\* returns a row whose eight fields equal the inputs (absent ones NULL) and
\* whose created_at is not NULL.
C5_AddGetRoundTrip ==
    [][ret'.op = "add_stamp" =>
        /\ ret'.err = "none"
        /\ ret'.val \notin DOMAIN stamps
        /\ get_stamp(stamps', ret'.val) # None
        /\ \A c \in InsertCols : get_stamp(stamps', ret'.val)[c] = ret'.arg[c]
        /\ get_stamp(stamps', ret'.val)["id"] = Integer(ret'.val)
        /\ get_stamp(stamps', ret'.val)["created_at"] # NULL]_vars

\* C6: init_db on a store that init_db has set up before raises nothing and
\* leaves the tables, the columns, the indexes and every row as they were.
C6_InitDbTwiceChangesNothing ==
    [][(ret'.op = "init_db" /\ Connected) =>
        /\ ret'.err = "none"
        /\ UNCHANGED <<tables, indexes, stampCols, stampDefaults, stamps, tags,
                       stamp_tags, collection_items>>]_vars

\* The nine columns are there, year INTEGER and the others TEXT.
NineColumns(cols) ==
    \A c \in neededSet :
        /\ c \in DOMAIN cols
        /\ cols[c] = IF c = "year" THEN "INTEGER" ELSE "TEXT"

Timestamped(rows) ==
    \A i \in DOMAIN rows : rows[i]["created_at"] # NULL /\ rows[i]["updated_at"] # NULL

\* C7 as stated: after the migration of an existing stamps table the nine
\* columns are there with their types, every row has created_at and
\* updated_at, and every value of a column that was there before is unchanged.
C7_MigrationKeepsEveryOldValue ==
    [][(ret'.op = "init_db" /\ ret'.arg.stamps_exists) =>
        /\ NineColumns(stampCols')
        /\ DOMAIN stamps' = DOMAIN stamps
        /\ Timestamped(stamps')
        /\ \A i \in DOMAIN stamps : \A c \in DOMAIN stamps[i] :
                stamps'[i][c] = stamps[i][c]]_vars

\* C7 (amended): as C7, except that a created_at or updated_at that was there
\* before and was NULL is set to the current time; a column that was there
\* before also keeps its declared type.
C7_MigrationKeepsOldValuesButNullTimestamps ==
    [][(ret'.op = "init_db" /\ ret'.arg.stamps_exists) =>
        /\ NineColumns(stampCols')
        /\ \A c \in DOMAIN stampCols : stampCols'[c] = stampCols[c]
        /\ DOMAIN stamps' = DOMAIN stamps
        /\ Timestamped(stamps')
        /\ \A i \in DOMAIN stamps : \A c \in DOMAIN stamps[i] :
                \/ stamps'[i][c] = stamps[i][c]
                \/ /\ c \in {"created_at", "updated_at"}
                   /\ stamps[i][c] = NULL
                   /\ stamps'[i][c] = DateTime(now')]_vars

\* C7's case: the migration has just added notes, image_path and year (among
\* others) to a table that holds a row.
C7_Witness ==
    /\ ret.op = "init_db"
    /\ ret.arg.stamps_exists
    /\ {"notes", "image_path", "year"} \subseteq ret.arg.added
    /\ DOMAIN stamps # {}
    /\ "name" \in DOMAIN stampCols

\* C8: constructing a Stamp with a non-numeric year raises ValueError, and no
\* Stamp object holds that year.
C8_InvalidYearRaisesValueError ==
    (/\ mret.op = "Stamp"
     /\ "year" \in DOMAIN mret.arg.kw
     /\ mret.arg.kw["year"][1] # "int") =>
        /\ mret.err = "ValueError"
        /\ \A o \in DOMAIN objects : objects[o].year # mret.arg.kw["year"]

\* C9: a list returned by list_stamps still holds the items it held when it
\* was returned, whatever add_stamp and remove_stamp have done since.
C9_ListStampsIsSnapshot ==
    \A h \in held : lists[h.ref] = h.seen

\* C10: once init_db has returned, the stamps table has every column of the
\* current schema, and an add_stamp with a name succeeds.
C10_InitDbGivesCurrentSchema ==
    Connected =>
        /\ DOMAIN CreateStampsCols \subseteq DOMAIN stampCols
        /\ ret.op = "add_stamp" => ret.err = "none"
====
